---------------------------- MODULE Spec2Model ----------------------------
(***************************************************************************)
(* MinervaAI: the FAISS vector store (src/src/vector_db.py), the RAG       *)
(* orchestrator (src/src/search.py, src/app.py), the chat window's worker  *)
(* threads (src/app.py) and the ingestion functions                        *)
(* (src/src/data_loader.py, src/src/embedding.py), as a state machine.     *)
(*                                                                         *)
(* Python values are modelled as follows.                                  *)
(*   - a dict is a function over its set of keys (strings);                *)
(*   - None is the record None below;                                      *)
(*   - a list is a sequence; list/array positions are 0-based in the code  *)
(*     and 1-based here, and every label the code sees is kept 0-based;    *)
(*   - a float32 vector is a tuple of small integers;                      *)
(*   - a string that is joined or tested for emptiness is the sequence of  *)
(*     its pieces (Chars).                                                 *)
(***************************************************************************)
EXTENDS Integers, Sequences, FiniteSets, TLC

VARIABLES
    index,            \* FaissVectorStore.index    (NoIndex while None)
    metadata,         \* FaissVectorStore.metadata
    embedding_model,  \* FaissVectorStore.embedding_model / .model
    faiss_file,       \* <persist_dir>/faiss.index
    meta_file,        \* <persist_dir>/metadata.pkl
    pc,               \* position of the store's caller: "idle", or inside save()
    ret,              \* outcome of the last call
    presave,          \* history: the store as the last completed save() saw it
    paired            \* history: for each vector of the index, the metadata
                      \* record it was added with (None if with none); empty
                      \* after load(), which knows no such thing

store_vars == <<index, metadata, embedding_model, faiss_file, meta_file,
                pc, ret, presave, paired>>

VARIABLES
    mainloop,             \* the window: "not_started" until setup_ui has built
                          \* chat_area, then "running", "exited" after root.quit
    rag_search,           \* ChatUI.rag_search: "None" or "RAGSearch"
    init_pc,              \* position of the init_rag thread
    worker,               \* position of each process_message thread
    chat_area,            \* the blocks shown in ChatUI.chat_area, in order
    typing_indicator_id,  \* ChatUI.typing_indicator_id (NoPosition while None)
    is_typing,            \* ChatUI.is_typing
    quit_scheduled        \* root.after(2000, root.quit) is pending

chat_vars == <<mainloop, rag_search, init_pc, worker, chat_area,
               typing_indicator_id, is_typing, quit_scheduled>>

VARIABLES
    files,      \* load_all_documents: the supported files found, in rglob order
    file_i,     \* load_all_documents: the file its loop is at (0: not running)
    documents,  \* load_all_documents: the list it is filling
    call        \* the last finished call of the ingestion functions

ingest_vars == <<files, file_i, documents, call>>

-----------------------------------------------------------------------------
(* Bounds of the model.                                                    *)

\* most vectors an index, and most records a metadata list, grows to
MaxVectors == 2
\* most rows, and most metadata records, one add_embeddings call is handed
MaxBatch == 2
\* most documents one source yields, or one build_from_documents call is handed
MaxDocs == 1
\* most messages the user sends in one run of the chat window
MaxMessages == 2

-----------------------------------------------------------------------------
(* Values.                                                                 *)

None == [py_none |-> "None"]

Models == {"all-MiniLM-L6-v2", "all-mpnet-base-v2"}
DefaultModel == "all-MiniLM-L6-v2"

\* contents of documents, chunks and queries; "" is the empty content
Texts == {"alpha", "beta"}
Contents == Texts \cup {""}

ModelCode(m) == IF m = DefaultModel THEN 0 ELSE 2
TextCode(t) == IF t = "alpha" THEN 0 ELSE 1

\* SentenceTransformer(m).encode([t])[0]: a pure function of the model and
\* the text; two models embed the same text differently.
encode(m, t) == <<ModelCode(m), TextCode(t)>>

\* the model a vector came out of
ProducedBy(v) == CHOOSE m \in Models : ModelCode(m) = v[1]

Vectors == {encode(m, t) : m \in Models, t \in Texts}

\* metadata records: a chunk's {"text": ...}, and a record without "text"
TextMeta(t) == [text |-> t]
Metas == {TextMeta(t) : t \in Texts} \cup {[source |-> "a.pdf"]}

\* self.index = None
NoIndex == [d |-> 0, xb |-> << >>]

\* a file that does not exist
NoFaissFile == [exists |-> FALSE, d |-> 0, ntotal |-> 0, codes |-> << >>]
NoMetaFile == [exists |-> FALSE, ops |-> << >>]

\* sequences over S of length lo..hi
SeqsOf(S, lo, hi) == UNION {[1..n -> S] : n \in lo..hi}

\* Python's truth value of a list or dict argument that may be None
Truthy(x) == x # None /\ DOMAIN x # {}

\* the pieces of a string; "" has none
Chars(s) == IF s = "" THEN << >> ELSE <<s>>

\* sep.join(strs), as pieces
RECURSIVE join(_, _)
join(sep, strs) ==
    IF Len(strs) = 0 THEN << >>
    ELSE IF Len(strs) = 1 THEN Chars(strs[1])
    ELSE Chars(strs[1]) \o <<sep>> \o join(sep, Tail(strs))

-----------------------------------------------------------------------------
(* faiss.IndexFlatL2                                                       *)

ntotal(idx) == Len(idx.xb)

\* squared Euclidean distance, the metric of IndexFlatL2
RECURSIVE SumSq(_, _, _)
SumSq(a, b, i) ==
    IF i = 0 THEN 0 ELSE (a[i] - b[i]) * (a[i] - b[i]) + SumSq(a, b, i - 1)
L2Sqr(a, b) == SumSq(a, b, Len(a))

\* the distance faiss reports in a slot it could not fill (FLT_MAX): larger
\* than every distance between two vectors of the model
PadDistance ==
    1 + CHOOSE d \in {L2Sqr(a, b) : a, b \in Vectors} :
            \A e \in {L2Sqr(a, b) : a, b \in Vectors} : e <= d
\* the label faiss reports in such a slot
PadLabel == -1

\* positions of xb by ascending distance to q (ties: lower position first;
\* an exhaustive scan is deterministic, so equal inputs give equal orders)
RECURSIVE Nearest(_, _, _)
Nearest(xb, q, S) ==
    IF S = {} THEN << >>
    ELSE LET m == CHOOSE i \in S : \A j \in S :
                      \/ L2Sqr(xb[i], q) < L2Sqr(xb[j], q)
                      \/ L2Sqr(xb[i], q) = L2Sqr(xb[j], q) /\ i <= j
         IN  <<m>> \o Nearest(xb, q, S \ {m})

\* index.search(q, k): k labels and k distances, whatever ntotal is; the slots
\* past ntotal hold PadLabel and PadDistance
IndexSearch(idx, q, k) ==
    LET order == Nearest(idx.xb, q, 1..ntotal(idx))
    IN  [I |-> [s \in 1..k |-> IF s <= Len(order) THEN order[s] - 1 ELSE PadLabel],
         D |-> [s \in 1..k |-> IF s <= Len(order) THEN L2Sqr(idx.xb[order[s]], q)
                                                  ELSE PadDistance]]


\* faiss.write_index(index, path): the header and the rows laid end to end
RECURSIVE Flatten(_)
Flatten(rows) == IF Len(rows) = 0 THEN << >> ELSE Head(rows) \o Flatten(Tail(rows))
write_index(idx) ==
    [exists |-> TRUE, d |-> idx.d, ntotal |-> ntotal(idx), codes |-> Flatten(idx.xb)]

\* read_index with the row stride left out of the offset
read_index_no_stride(f) ==
    [d |-> f.d,
     xb |-> [i \in 1..f.ntotal |-> [j \in 1..f.d |-> f.codes[(i - 1) + j]]]]

\* faiss.read_index(path): the rows cut back out of the codes, d at a time
read_index(f) ==
    [d |-> f.d,
     xb |-> [i \in 1..f.ntotal |-> [j \in 1..f.d |-> f.codes[(i - 1) * f.d + j]]]]

-----------------------------------------------------------------------------
(* pickle of a list of dicts: an opcode stream                             *)

PickleOp(op, arg) == [op |-> op, arg |-> arg]

\* pickle.dump(list, f): EMPTY_LIST, then MARK item* APPENDS unless the list
\* is empty, then STOP
pickle_dump(list) ==
    [exists |-> TRUE,
     ops |-> <<PickleOp("EMPTY_LIST", None)>>
             \o (IF Len(list) = 0 THEN << >>
                 ELSE <<PickleOp("MARK", None)>>
                      \o [i \in 1..Len(list) |-> PickleOp("ITEM", list[i])]
                      \o <<PickleOp("APPENDS", None)>>)
             \o <<PickleOp("STOP", None)>>]

\* pickle.load(f): the items between MARK and APPENDS, in order
pickle_load(f) ==
    LET IsItem(o) == o.op = "ITEM"
        items == SelectSeq(f.ops, IsItem)
    IN  [i \in 1..Len(items) |-> items[i].arg]

-----------------------------------------------------------------------------
(* numpy arrays handed to add_embeddings                                   *)

\* an array of shape (len(rows), d)
Array2(rows, d) == [ndim |-> 2, d |-> d, rows |-> rows]
\* np.array([]) : shape (0,)
Array1Empty == [ndim |-> 1, d |-> 0, rows |-> << >>]

\* a metadatas argument: a list, or None
SomeList(list) == [is_none |-> FALSE, list |-> list]
NoneList == [is_none |-> TRUE, list |-> << >>]
\* `if metadatas:`
ListTruthy(arg) == ~arg.is_none /\ Len(arg.list) > 0

-----------------------------------------------------------------------------
(* FaissVectorStore: each method as a function of the fields it reads      *)

\* the outcome of a call; exc = "" when it returned
Outcome(op, exc) ==
    [op |-> op, exc |-> exc, results |-> << >>, response |-> "",
     llm_invoked |-> FALSE, top_k |-> 0, nvec |-> 0, nmeta |-> 0,
     fresh |-> FALSE, had_index |-> FALSE, had_meta |-> FALSE, calls |-> << >>]

\* add_embeddings(embeddings, metadatas): the index and metadata it leaves
add_embeddings(idx, meta, embeddings, metadatas) ==
    IF embeddings.ndim < 2
    THEN \* embeddings.shape[1]
         [exc |-> "IndexError", index |-> idx, metadata |-> meta]
    ELSE LET created == IF idx = NoIndex
                        THEN [d |-> embeddings.d, xb |-> << >>]
                        ELSE idx
         IN  [exc |-> "",
              index |-> [created EXCEPT !.xb = @ \o embeddings.rows],
              metadata |-> IF ListTruthy(metadatas)
                           THEN meta \o metadatas.list
                           ELSE meta]

\* history: the record each row of an add_embeddings call comes with, row i
\* with metadatas[i], a row without one with None
added_with(embeddings, metadatas) ==
    [i \in 1..Len(embeddings.rows) |->
        IF ~metadatas.is_none /\ i <= Len(metadatas.list)
        THEN metadatas.list[i] ELSE None]

\* list[i] for a Python int i and a list: negative i counts from the end
PyInRange(list, i) == -Len(list) <= i /\ i < Len(list)
PyItem(list, i) == IF i >= 0 THEN list[i + 1] ELSE list[Len(list) + i + 1]

\* the loop of search() over zip(I[0], D[0])
SearchRow(meta, label, dist) ==
    [index |-> label, distance |-> dist,
     metadata |-> IF label < Len(meta) THEN PyItem(meta, label) ELSE None]

\* search(query_embedding, top_k)
search(idx, meta, q, top_k) ==
    IF idx = NoIndex
    THEN [exc |-> "AttributeError", results |-> << >>]
    ELSE LET found == IndexSearch(idx, q, top_k)
         IN  IF \E s \in 1..top_k :
                    found.I[s] < Len(meta) /\ ~PyInRange(meta, found.I[s])
             THEN [exc |-> "IndexError", results |-> << >>]
             ELSE [exc |-> "",
                   results |-> [s \in 1..top_k |->
                                   SearchRow(meta, found.I[s], found.D[s])]]

\* query(query_text, top_k)
query(idx, meta, model, query_text, top_k) ==
    search(idx, meta, encode(model, query_text), top_k)


\* chunk_size of EmbeddingPipeline and FaissVectorStore
chunk_size == 1000

\* the characters str.strip() removes
Whitespace == {" ", "\n", "\t"}

\* str.strip()
RECURSIVE lstrip(_)
lstrip(s) == IF s # "" /\ Head(s) \in Whitespace THEN lstrip(Tail(s)) ELSE s
RECURSIVE rstrip(_)
rstrip(s) ==
    IF s # "" /\ SubSeq(s, Len(s), Len(s)) \in Whitespace
    THEN rstrip(SubSeq(s, 1, Len(s) - 1))
    ELSE s
strip(s) == rstrip(lstrip(s))

\* RecursiveCharacterTextSplitter.split_text of a text no longer than
\* chunk_size: the pieces it cuts at the first separator found are all merged
\* again, separators kept, the merged text is stripped of surrounding
\* whitespace, and a text that is empty after that gives no chunk
split_text(text) == IF strip(text) = "" THEN << >> ELSE <<strip(text)>>

\* EmbeddingPipeline.chunk_documents: the chunks of every document, in order
\* (contents here are no longer than chunk_size)
RECURSIVE chunk_documents(_)
chunk_documents(docs) ==
    IF Len(docs) = 0 THEN << >>
    ELSE split_text(Head(docs)) \o chunk_documents(Tail(docs))

\* EmbeddingPipeline.embed_chunks, then np.array(...).astype('float32'): one
\* row per chunk, in order; no chunk at all gives an array of shape (0,)
embed_chunks(model, chunks) ==
    IF Len(chunks) = 0 THEN Array1Empty
    ELSE Array2([i \in 1..Len(chunks) |-> encode(model, chunks[i])],
                Len(encode(model, chunks[1])))

\* build_from_documents up to the call of save(): what add_embeddings leaves
build_add(idx, meta, model, docs) ==
    LET chunks == chunk_documents(docs)
    IN  add_embeddings(idx, meta, embed_chunks(model, chunks),
                       SomeList([i \in 1..Len(chunks) |-> TextMeta(chunks[i])]))

\* history: the records build_from_documents adds its vectors with
build_pairs(docs) ==
    LET chunks == chunk_documents(docs)
    IN  [i \in 1..Len(chunks) |-> TextMeta(chunks[i])]

\* dict.get(key, default)
DictGet(d, key, default) == IF key \in DOMAIN d THEN d[key] ELSE default

NoResultsMessage == "No relevant documents found."
LlmContent == "summary"

\* RAGSearch.search_and_summarize(query, top_k), the LLM answering or raising
search_and_summarize(idx, meta, model, query_text, top_k, llm_exc) ==
    LET found == query(idx, meta, model, query_text, top_k)
        kept == SelectSeq(found.results, LAMBDA r : Truthy(r.metadata))
        texts == [i \in 1..Len(kept) |-> DictGet(kept[i].metadata, "text", "")]
        context == join("\n\n", texts)
        base == [Outcome("search_and_summarize", "") EXCEPT !.top_k = top_k]
    IN  IF found.exc # "" THEN [base EXCEPT !.exc = found.exc]
        ELSE IF context = << >> THEN [base EXCEPT !.response = NoResultsMessage]
        ELSE IF llm_exc # "" THEN [base EXCEPT !.exc = llm_exc, !.llm_invoked = TRUE]
        ELSE [base EXCEPT !.response = LlmContent, !.llm_invoked = TRUE]

\* the existence test with `or` for `and`
artifacts_exist_either(ff, mf) == ff.exists \/ mf.exists

\* `os.path.exists(faiss_path) and os.path.exists(meta_path)`
artifacts_exist(ff, mf) == ff.exists /\ mf.exists

-----------------------------------------------------------------------------
(* The store's state machine                                               *)

IsFresh == index = NoIndex /\ metadata = << >>

NoSave == [valid |-> FALSE, index |-> NoIndex, metadata |-> << >>]

StoreInit ==
    /\ index = NoIndex
    /\ metadata = << >>
    /\ embedding_model = DefaultModel
    /\ faiss_file = NoFaissFile
    /\ meta_file = NoMetaFile
    /\ pc = "idle"
    /\ ret = Outcome("__init__", "")
    /\ presave = NoSave
    /\ paired = << >>

\* FaissVectorStore(persist_dir, embedding_model): a new instance over the
\* same directory replaces the old one
NewStore(m) ==
    /\ UNCHANGED <<chat_vars, ingest_vars>>
    /\ pc = "idle"
    /\ index' = NoIndex
    /\ metadata' = << >>
    /\ paired' = << >>
    /\ embedding_model' = m
    /\ ret' = Outcome("__init__", "")
    /\ UNCHANGED <<faiss_file, meta_file, pc, presave>>

AddEmbeddings(embeddings, metadatas) ==
    /\ UNCHANGED <<chat_vars, ingest_vars>>
    /\ pc = "idle"
    /\ ntotal(index) + Len(embeddings.rows) <= MaxVectors
    /\ Len(metadata) + Len(metadatas.list) <= MaxVectors
    /\ LET r == add_embeddings(index, metadata, embeddings, metadatas)
       IN  /\ index' = r.index
           /\ metadata' = r.metadata
           /\ paired' = IF r.exc # "" THEN paired
                        ELSE paired \o added_with(embeddings, metadatas)
           /\ ret' = [Outcome("add_embeddings", r.exc) EXCEPT
                         !.nvec = Len(embeddings.rows),
                         !.nmeta = IF metadatas.is_none THEN -1
                                   ELSE Len(metadatas.list)]
    /\ UNCHANGED <<embedding_model, faiss_file, meta_file, pc, presave>>

\* save(), first half: faiss.write_index
SaveIndex ==
    /\ UNCHANGED <<chat_vars, ingest_vars, paired>>
    /\ pc = "idle"
    /\ IF index = NoIndex
       THEN /\ ret' = Outcome("save", "TypeError")
            /\ UNCHANGED <<faiss_file, pc, presave>>
       ELSE /\ faiss_file' = write_index(index)
            /\ pc' = "save_meta"
            /\ presave' = NoSave
            /\ ret' = Outcome("save", "")
    /\ UNCHANGED <<index, metadata, embedding_model, meta_file>>

\* save(), second half: open(meta_path, "wb") and pickle.dump
SaveMeta ==
    /\ UNCHANGED <<chat_vars, ingest_vars, paired>>
    /\ pc = "save_meta"
    /\ meta_file' = pickle_dump(metadata)
    /\ pc' = "idle"
    /\ presave' = [valid |-> TRUE, index |-> index, metadata |-> metadata]
    /\ UNCHANGED <<index, metadata, embedding_model, faiss_file, ret>>

\* save() leaves between its two writes: opening metadata.pkl raises, or the
\* daemon thread running it is stopped
SaveInterrupted ==
    /\ UNCHANGED <<chat_vars, ingest_vars, paired>>
    /\ pc = "save_meta"
    /\ pc' = "idle"
    /\ ret' = [ret EXCEPT !.exc = "OSError"]
    /\ UNCHANGED <<index, metadata, embedding_model, faiss_file, meta_file, presave>>

Load ==
    /\ UNCHANGED <<chat_vars, ingest_vars>>
    /\ pc = "idle"
    /\ paired' = << >>
    /\ IF ~faiss_file.exists
       THEN /\ ret' = [Outcome("load", "RuntimeError") EXCEPT !.fresh = IsFresh]
            /\ UNCHANGED <<index, metadata>>
       ELSE /\ index' = read_index(faiss_file)
            /\ IF ~meta_file.exists
               THEN /\ ret' = [Outcome("load", "FileNotFoundError") EXCEPT
                                  !.fresh = IsFresh]
                    /\ UNCHANGED metadata
               ELSE /\ metadata' = pickle_load(meta_file)
                    /\ ret' = [Outcome("load", "") EXCEPT !.fresh = IsFresh]
    /\ UNCHANGED <<embedding_model, faiss_file, meta_file, pc, presave>>

Search(q, top_k) ==
    /\ UNCHANGED <<chat_vars, ingest_vars, paired>>
    /\ pc = "idle"
    /\ LET r == search(index, metadata, q, top_k)
       IN  ret' = [Outcome("search", r.exc) EXCEPT
                      !.results = r.results, !.top_k = top_k]
    /\ UNCHANGED <<index, metadata, embedding_model, faiss_file, meta_file,
                   pc, presave>>

Query(query_text, top_k) ==
    /\ UNCHANGED <<chat_vars, ingest_vars, paired>>
    /\ pc = "idle"
    /\ LET r == query(index, metadata, embedding_model, query_text, top_k)
       IN  ret' = [Outcome("query", r.exc) EXCEPT
                      !.results = r.results, !.top_k = top_k]
    /\ UNCHANGED <<index, metadata, embedding_model, faiss_file, meta_file,
                   pc, presave>>

SearchAndSummarize(query_text, top_k, llm_exc) ==
    /\ UNCHANGED <<chat_vars, ingest_vars, paired>>
    /\ pc = "idle"
    /\ ret' = search_and_summarize(index, metadata, embedding_model,
                                   query_text, top_k, llm_exc)
    /\ UNCHANGED <<index, metadata, embedding_model, faiss_file, meta_file,
                   pc, presave>>

\* build_from_documents(documents): chunk, embed, add_embeddings, then save(),
\* whose second half is SaveMeta
BuildFromDocuments(docs) ==
    /\ UNCHANGED <<chat_vars, ingest_vars>>
    /\ pc = "idle"
    /\ ntotal(index) + Len(docs) <= MaxVectors
    /\ Len(metadata) + Len(docs) <= MaxVectors
    /\ LET r == build_add(index, metadata, embedding_model, docs)
       IN  /\ index' = r.index
           /\ metadata' = r.metadata
           /\ paired' = paired \o build_pairs(docs)
           /\ IF r.exc # ""
              THEN /\ ret' = Outcome("build_from_documents", r.exc)
                   /\ UNCHANGED <<faiss_file, pc, presave>>
              ELSE /\ faiss_file' = write_index(r.index)
                   /\ pc' = "save_meta"
                   /\ presave' = NoSave
                   /\ ret' = Outcome("build_from_documents", "")
    /\ UNCHANGED <<embedding_model, meta_file>>


\* what a JSON loader of the document sources does: returns documents or raises
Loaded(docs) == [exc |-> "", docs |-> docs]
LoadFails == [exc |-> "FileNotFoundError", docs |-> << >>]

\* RAGSearch(persist_dir, embedding_model): a new store, then build or load
RAGSearchInit(m, org_docs, commits, issues) ==
    /\ UNCHANGED <<chat_vars, ingest_vars>>
    /\ pc = "idle"
    /\ embedding_model' = m
    /\ LET base == [Outcome("RAGSearch", "") EXCEPT
                       !.had_index = faiss_file.exists,
                       !.had_meta = meta_file.exists]
           docs == org_docs \o commits.docs \o issues.docs
           built == build_add(NoIndex, << >>, m, docs)
       IN  IF ~artifacts_exist(faiss_file, meta_file)
           THEN IF commits.exc # ""
                THEN /\ ret' = [base EXCEPT !.exc = commits.exc,
                                   !.calls = <<"load_all_documents",
                                               "load_github_commits_json">>]
                     /\ index' = NoIndex
                     /\ paired' = << >>
                     /\ metadata' = << >>
                     /\ UNCHANGED <<faiss_file, meta_file, pc, presave>>
                ELSE IF issues.exc # ""
                THEN /\ ret' = [base EXCEPT !.exc = issues.exc,
                                   !.calls = <<"load_all_documents",
                                               "load_github_commits_json",
                                               "load_github_issues_json">>]
                     /\ index' = NoIndex
                     /\ paired' = << >>
                     /\ metadata' = << >>
                     /\ UNCHANGED <<faiss_file, meta_file, pc, presave>>
                ELSE /\ index' = built.index
                     /\ paired' = build_pairs(docs)
                     /\ metadata' = built.metadata
                     /\ UNCHANGED meta_file
                     /\ IF built.exc # ""
                        THEN /\ ret' = [base EXCEPT !.exc = built.exc,
                                           !.calls = <<"load_all_documents",
                                                       "load_github_commits_json",
                                                       "load_github_issues_json",
                                                       "build_from_documents">>]
                             /\ UNCHANGED <<faiss_file, pc, presave>>
                        ELSE /\ ret' = [base EXCEPT
                                           !.calls = <<"load_all_documents",
                                                       "load_github_commits_json",
                                                       "load_github_issues_json",
                                                       "build_from_documents">>]
                             /\ faiss_file' = write_index(built.index)
                             /\ pc' = "save_meta"
                             /\ presave' = NoSave
           ELSE /\ ret' = [base EXCEPT !.calls = <<"load">>]
                /\ index' = read_index(faiss_file)
                /\ paired' = << >>
                /\ metadata' = pickle_load(meta_file)
                /\ UNCHANGED <<faiss_file, meta_file, pc, presave>>

-----------------------------------------------------------------------------
(* ChatUI: the window's thread, the init_rag thread and one process_message *)
(* thread per message.  RAGSearch() and search_and_summarize are the calls  *)
(* modelled above; here each is an interval that a thread is inside, ending *)
(* in a return or a raise.                                                  *)

Workers == 1..MaxMessages
\* self.typing_indicator_id = None
NoPosition == -1

\* a process_message thread that does not exist yet.  History of a thread:
\* raised (its query raised), answered (an add_message call was made for its
\* message), shown (the block of chat_area its indicator was inserted as)
Idle(w) == [pc |-> "unborn", raised |-> FALSE, answered |-> FALSE, shown |-> 0]

ChatInit ==
    /\ mainloop = "not_started"
    /\ rag_search = "None"
    /\ init_pc = "start"
    /\ worker = [w \in Workers |-> Idle(w)]
    /\ chat_area = << >>
    /\ typing_indicator_id = NoPosition
    /\ is_typing = FALSE
    /\ quit_scheduled = FALSE

\* add_message(sender, message): one block at the end of chat_area
add_message(area, sender) == Append(area, sender)

\* ChatUI.__init__ after setup_rag_system(): setup_ui(), then mainloop
SetupUI ==
    /\ mainloop = "not_started"
    /\ mainloop' = "running"
    /\ UNCHANGED <<rag_search, init_pc, worker, chat_area, typing_indicator_id,
                   is_typing, quit_scheduled>>
    /\ UNCHANGED <<store_vars, ingest_vars>>

\* init_rag: the downloads if a data file is missing, then into RAGSearch()
InitBegin ==
    /\ mainloop # "exited"
    /\ init_pc = "start"
    /\ init_pc' = "constructing"
    /\ UNCHANGED <<mainloop, rag_search, worker, chat_area, typing_indicator_id,
                   is_typing, quit_scheduled>>
    /\ UNCHANGED <<store_vars, ingest_vars>>

\* init_rag: RAGSearch() returns and is assigned, or raises into the except
InitEnd(raises) ==
    /\ mainloop # "exited"
    /\ init_pc = "constructing"
    /\ IF raises
       THEN init_pc' = "done" /\ UNCHANGED rag_search
       ELSE init_pc' = "greet" /\ rag_search' = "RAGSearch"
    /\ UNCHANGED <<mainloop, worker, chat_area, typing_indicator_id,
                   is_typing, quit_scheduled>>
    /\ UNCHANGED <<store_vars, ingest_vars>>

\* init_rag: add_message("system", greeting); without chat_area it raises an
\* AttributeError that the except swallows
InitGreet ==
    /\ mainloop # "exited"
    /\ init_pc = "greet"
    /\ init_pc' = "done"
    /\ chat_area' = IF mainloop = "not_started" THEN chat_area
                     ELSE add_message(chat_area, "system")
    /\ UNCHANGED <<mainloop, rag_search, worker, typing_indicator_id,
                   is_typing, quit_scheduled>>
    /\ UNCHANGED <<store_vars, ingest_vars>>

\* send_message with a message that is no quit word: the user's block, then a
\* new process_message thread
SendMessage(w) ==
    /\ mainloop = "running"
    /\ worker[w].pc = "unborn"
    /\ \A v \in Workers : v < w => worker[v].pc # "unborn"
    /\ chat_area' = add_message(chat_area, "user")
    /\ worker' = [worker EXCEPT ![w].pc = "check"]
    /\ UNCHANGED <<mainloop, rag_search, init_pc, typing_indicator_id,
                   is_typing, quit_scheduled>>
    /\ UNCHANGED <<store_vars, ingest_vars>>

\* send_message with nothing but blanks: returns at once
SendBlank ==
    /\ mainloop = "running"
    /\ UNCHANGED chat_vars
    /\ UNCHANGED <<store_vars, ingest_vars>>

\* send_message with "quit", "exit" or "bye"
SendQuit ==
    /\ mainloop = "running"
    /\ ~quit_scheduled
    /\ chat_area' = add_message(chat_area, "system")
    /\ quit_scheduled' = TRUE
    /\ UNCHANGED <<mainloop, rag_search, init_pc, worker, typing_indicator_id,
                   is_typing>>
    /\ UNCHANGED <<store_vars, ingest_vars>>

\* the scheduled root.quit ends mainloop and the process; the worker threads
\* are daemons and end with it
Quit ==
    /\ mainloop = "running"
    /\ quit_scheduled
    /\ mainloop' = "exited"
    /\ UNCHANGED <<rag_search, init_pc, worker, chat_area, typing_indicator_id,
                   is_typing, quit_scheduled>>
    /\ UNCHANGED <<store_vars, ingest_vars>>

\* process_message: `if not self.rag_search`
ProcessCheck(w) ==
    /\ mainloop # "exited"
    /\ worker[w].pc = "check"
    /\ IF rag_search = "None"
       THEN /\ chat_area' = add_message(chat_area, "system")
            /\ worker' = [worker EXCEPT ![w].pc = "done", ![w].answered = TRUE]
       ELSE /\ worker' = [worker EXCEPT ![w].pc = "show_index"]
            /\ UNCHANGED chat_area
    /\ UNCHANGED <<mainloop, rag_search, init_pc, typing_indicator_id,
                   is_typing, quit_scheduled>>
    /\ UNCHANGED <<store_vars, ingest_vars>>

\* show_typing_indicator: self.typing_indicator_id = chat_area.index('end')
ShowIndex(w) ==
    /\ mainloop # "exited"
    /\ worker[w].pc = "show_index"
    /\ typing_indicator_id' = Len(chat_area)
    /\ worker' = [worker EXCEPT ![w].pc = "show_insert"]
    /\ UNCHANGED <<mainloop, rag_search, init_pc, chat_area, is_typing,
                   quit_scheduled>>
    /\ UNCHANGED <<store_vars, ingest_vars>>

\* show_typing_indicator: the inserts of "Assistant is typing..."
ShowInsert(w) ==
    /\ mainloop # "exited"
    /\ worker[w].pc = "show_insert"
    /\ chat_area' = Append(chat_area, "typing")
    /\ worker' = [worker EXCEPT ![w].pc = "set_typing",
                                ![w].shown = Len(chat_area) + 1]
    /\ UNCHANGED <<mainloop, rag_search, init_pc, typing_indicator_id,
                   is_typing, quit_scheduled>>
    /\ UNCHANGED <<store_vars, ingest_vars>>

\* process_message: self.is_typing = True
SetTyping(w) ==
    /\ mainloop # "exited"
    /\ worker[w].pc = "set_typing"
    /\ is_typing' = TRUE
    /\ worker' = [worker EXCEPT ![w].pc = "query"]
    /\ UNCHANGED <<mainloop, rag_search, init_pc, chat_area,
                   typing_indicator_id, quit_scheduled>>
    /\ UNCHANGED <<store_vars, ingest_vars>>

\* process_message: into self.rag_search.search_and_summarize(message, top_k=3)
QueryBegin(w) ==
    /\ mainloop # "exited"
    /\ worker[w].pc = "query"
    /\ worker' = [worker EXCEPT ![w].pc = "in_query"]
    /\ UNCHANGED <<mainloop, rag_search, init_pc, chat_area,
                   typing_indicator_id, is_typing, quit_scheduled>>
    /\ UNCHANGED <<store_vars, ingest_vars>>

\* search_and_summarize returns, or raises into the except
QueryEnd(w, raises) ==
    /\ mainloop # "exited"
    /\ worker[w].pc = "in_query"
    /\ worker' = [worker EXCEPT ![w].pc = "hide", ![w].raised = raises]
    /\ UNCHANGED <<mainloop, rag_search, init_pc, chat_area,
                   typing_indicator_id, is_typing, quit_scheduled>>
    /\ UNCHANGED <<store_vars, ingest_vars>>

\* hide_typing_indicator: delete from typing_indicator_id to the end
HideTyping(w) ==
    /\ mainloop # "exited"
    /\ worker[w].pc = "hide"
    /\ IF typing_indicator_id # NoPosition /\ is_typing
       THEN /\ chat_area' = SubSeq(chat_area, 1, typing_indicator_id)
            /\ typing_indicator_id' = NoPosition
            /\ is_typing' = FALSE
       ELSE UNCHANGED <<chat_area, typing_indicator_id, is_typing>>
    /\ worker' = [worker EXCEPT ![w].pc = IF worker[w].raised THEN "done" ELSE "add"]
    /\ UNCHANGED <<mainloop, rag_search, init_pc, quit_scheduled>>
    /\ UNCHANGED <<store_vars, ingest_vars>>

\* process_message: self.add_message("bot", response)
AddResponse(w) ==
    /\ mainloop # "exited"
    /\ worker[w].pc = "add"
    /\ chat_area' = add_message(chat_area, "bot")
    /\ worker' = [worker EXCEPT ![w].pc = "done", ![w].answered = TRUE]
    /\ UNCHANGED <<mainloop, rag_search, init_pc, typing_indicator_id,
                   is_typing, quit_scheduled>>
    /\ UNCHANGED <<store_vars, ingest_vars>>

\* build or load, and queries, that threads are inside at this moment
InFlight ==
    (IF init_pc = "constructing" THEN 1 ELSE 0)
    + Cardinality({w \in Workers : worker[w].pc = "in_query"})

-----------------------------------------------------------------------------
(* Ingestion: src/src/data_loader.py and EmbeddingPipeline.chunk_documents  *)

\* `loaders`: the suffixes load_all_documents has a loader for
supported_extensions == {".pdf", ".txt", ".csv", ".xlsx", ".docx"}

\* str.lower() of a suffix
lower(suffix) ==
    IF suffix = ".PDF" THEN ".pdf" ELSE IF suffix = ".TXT" THEN ".txt" ELSE suffix

\* a file under data_dir: what its loader yields, or that its loader raises
File(path, suffix, raises, docs) ==
    [path |-> path, suffix |-> suffix, raises |-> raises, docs |-> docs]

\* a call of one of the ingestion functions: the function, its argument and,
\* once it has returned, its result
Pending(fn, arg) == [fn |-> fn, arg |-> arg, done |-> FALSE, result |-> << >>]
Returned(c, result) == [c EXCEPT !.done = TRUE, !.result = result]

IngestInit ==
    /\ files = << >>
    /\ file_i = 0
    /\ documents = << >>
    /\ call = Pending("", << >>)

\* load_all_documents up to its loop: rglob, then the filter on the suffix
LoadAllDocuments ==
    /\ call.fn = "load_all_documents"
    /\ ~call.done
    /\ file_i = 0
    /\ files' = SelectSeq(call.arg,
                          LAMBDA f : lower(f.suffix) \in supported_extensions)
    /\ documents' = << >>
    /\ file_i' = 1
    /\ UNCHANGED call
    /\ UNCHANGED <<store_vars, chat_vars>>

\* one round of the loop, a raising loader losing what was loaded before it
load_file_discards(docs, f) == IF f.raises THEN << >> ELSE docs \o f.docs

\* one round of the loop: try: loader_class(path).load(), documents.extend;
\* except Exception: print
load_file(docs, f) == IF f.raises THEN docs ELSE docs \o f.docs

LoadFile ==
    /\ file_i \in 1..Len(files)
    /\ documents' = load_file(documents, files[file_i])
    /\ file_i' = file_i + 1
    /\ UNCHANGED <<files, call>>
    /\ UNCHANGED <<store_vars, chat_vars>>

\* load_all_documents after its loop: return documents
LoadReturn ==
    /\ file_i = Len(files) + 1
    /\ call' = Returned(call, documents)
    /\ file_i' = 0
    /\ UNCHANGED <<files, documents>>
    /\ UNCHANGED <<store_vars, chat_vars>>

\* a JSON object without keys
EmptyObject == [k \in {} |-> ""]

\* Document(page_content=..., metadata=...)
Document(page_content, meta) == [page_content |-> page_content, metadata |-> meta]

\* `commit.get("author", {}).get("name", "")`, on the record instead of on
\* its nested commit object
record_author_name(commit) ==
    DictGet(DictGet(commit, "author", EmptyObject), "name", "")

\* `commit.get("commit", {}).get("author", {}).get("name", "")`
commit_author_name(commit) ==
    DictGet(DictGet(DictGet(commit, "commit", EmptyObject),
                    "author", EmptyObject), "name", "")

\* the loop body of load_github_commits_json
commit_document(commit) ==
    LET sha == DictGet(commit, "sha", "")
        msg == DictGet(DictGet(commit, "commit", EmptyObject), "message", "")
        author == commit_author_name(commit)
        date == DictGet(DictGet(DictGet(commit, "commit", EmptyObject),
                                "author", EmptyObject), "date", "")
    IN  Document(msg, [sha |-> sha, author |-> author, date |-> date])

\* load_github_commits_json, from the list json.load returned
load_github_commits_json(commits) ==
    [i \in 1..Len(commits) |-> commit_document(commits[i])]

LoadGithubCommitsJson ==
    /\ call.fn = "load_github_commits_json"
    /\ ~call.done
    /\ call' = Returned(call, load_github_commits_json(call.arg))
    /\ UNCHANGED <<files, file_i, documents>>
    /\ UNCHANGED <<store_vars, chat_vars>>

\* EmbeddingPipeline.chunk_documents on documents of the given contents
ChunkDocuments ==
    /\ call.fn = "chunk_documents"
    /\ ~call.done
    /\ \A i \in 1..Len(call.arg) : Len(call.arg[i]) <= chunk_size
    /\ call' = Returned(call, chunk_documents(call.arg))
    /\ UNCHANGED <<files, file_i, documents>>
    /\ UNCHANGED <<store_vars, chat_vars>>

-----------------------------------------------------------------------------
(* Inputs and specifications                                               *)

TopKs == {1, 3}
LlmOutcomes == {"", "APIError"}

\* rows embedded with model m from the texts T: lo to MaxBatch of them
Batches(m, T, lo) == {Array2(rows, Len(encode(m, "alpha"))) :
                         rows \in SeqsOf({encode(m, t) : t \in T}, lo, MaxBatch)}
\* metadatas arguments over the records M: None, or a list of at most MaxBatch
MetadataArgs(M) == {NoneList} \cup {SomeList(l) : l \in SeqsOf(M, 0, MaxBatch)}
\* document lists over the contents C
DocLists(C) == SeqsOf(C, 0, MaxDocs)
SourceOutcomes(C) == {LoadFails} \cup {Loaded(d) : d \in DocLists(C)}

vars == <<store_vars, chat_vars, ingest_vars>>

Init == StoreInit /\ ChatInit /\ IngestInit

\* One store in memory, grown by add_embeddings calls with non-empty batches
\* and every shape of metadatas; search and search_and_summarize read it.
NextStore ==
    \/ \E e \in Batches(embedding_model, Texts, 1), ms \in MetadataArgs(Metas) :
           AddEmbeddings(e, ms)
    \/ \E q \in Vectors, k \in TopKs : Search(q, k)
    \/ \E t \in Texts, k \in TopKs, x \in LlmOutcomes : SearchAndSummarize(t, k, x)

SpecStore == Init /\ [][NextStore]_vars

\* Stores over one persist_dir, grown by build_from_documents only.
Next ==
    \/ \E m \in Models : NewStore(m)
    \/ \E d \in DocLists(Contents) : BuildFromDocuments(d)
    \/ SaveIndex
    \/ SaveMeta
    \/ SaveInterrupted
    \/ Load
    \/ \E t \in Texts, k \in TopKs : Query(t, k)

Spec == Init /\ [][Next]_vars

\* Stores of one model over one persist_dir, grown by add_embeddings calls of
\* every shape (empty batches and misaligned metadatas included).
NextAdd ==
    \/ NewStore(DefaultModel)
    \/ \E e \in Batches(embedding_model, Texts, 0),
          ms \in MetadataArgs({TextMeta("alpha")}) : AddEmbeddings(e, ms)
    \/ SaveIndex
    \/ SaveMeta
    \/ SaveInterrupted
    \/ Load

SpecAdd == Init /\ [][NextAdd]_vars

\* The orchestrator: construction over whatever persist_dir holds, and queries.
NextRag ==
    \/ \E m \in Models, o \in DocLists({"alpha", ""}),
          c \in SourceOutcomes({"beta"}), i \in SourceOutcomes({"alpha"}) :
           RAGSearchInit(m, o, c, i)
    \/ SaveMeta
    \/ SaveInterrupted
    \/ \E t \in Texts, k \in TopKs, x \in LlmOutcomes : SearchAndSummarize(t, k, x)

SpecRag == Init /\ [][NextRag]_vars

\* The chat window: its own thread, the init_rag thread, and a process_message
\* thread per message, one statement at a time.
NextChat ==
    \/ SetupUI
    \/ InitBegin
    \/ \E raises \in BOOLEAN : InitEnd(raises)
    \/ InitGreet
    \/ \E w \in Workers : SendMessage(w)
    \/ SendBlank
    \/ SendQuit
    \/ Quit
    \/ \E w \in Workers : ProcessCheck(w)
    \/ \E w \in Workers : ShowIndex(w)
    \/ \E w \in Workers : ShowInsert(w)
    \/ \E w \in Workers : SetTyping(w)
    \/ \E w \in Workers : QueryBegin(w)
    \/ \E w \in Workers, raises \in BOOLEAN : QueryEnd(w, raises)
    \/ \E w \in Workers : HideTyping(w)
    \/ \E w \in Workers : AddResponse(w)

SpecChat == Init /\ [][NextChat]_vars

\* The process_message threads of messages sent one right after the other, all
\* started and none yet run; the window is up and init_rag has finished.
InitTyping ==
    /\ StoreInit
    /\ IngestInit
    /\ mainloop = "running"
    /\ rag_search = "RAGSearch"
    /\ init_pc = "done"
    /\ \E n \in 1..MaxMessages :
           /\ worker = [w \in Workers |->
                           IF w <= n THEN [Idle(w) EXCEPT !.pc = "check"]
                           ELSE Idle(w)]
           /\ chat_area = <<"system">> \o [i \in 1..n |-> "user"]
    /\ typing_indicator_id = NoPosition
    /\ is_typing = FALSE
    /\ quit_scheduled = FALSE

NextTyping ==
    \/ \E w \in Workers : ProcessCheck(w)
    \/ \E w \in Workers : ShowIndex(w)
    \/ \E w \in Workers : ShowInsert(w)
    \/ \E w \in Workers : SetTyping(w)
    \/ \E w \in Workers : QueryBegin(w)
    \/ \E w \in Workers, raises \in BOOLEAN : QueryEnd(w, raises)
    \/ \E w \in Workers : HideTyping(w)
    \/ \E w \in Workers : AddResponse(w)

SpecTyping == InitTyping /\ [][NextTyping]_vars

\* most files load_all_documents finds
MaxFiles == 3
\* most records of a commits file, most documents handed to chunk_documents
MaxRecords == 2

\* files under data_dir: loading, raising in their loader, not supported
Listings ==
    SeqsOf({File("a.pdf", ".pdf", FALSE, <<"a.pdf p1", "a.pdf p2">>),
            File("b.TXT", ".TXT", FALSE, <<"b.TXT">>),
            File("c.docx", ".docx", TRUE, << >>),
            File("d.csv", ".csv", TRUE, << >>),
            File("notes.md", ".md", FALSE, <<"notes.md">>)}, 0, MaxFiles)

\* commit records: every key there or not
AuthorObjects ==
    {[name |-> "Dana", date |-> "2024-01-01"], [name |-> "Dana"],
     [date |-> "2024-01-01"], EmptyObject}
CommitObjects ==
    {[message |-> "fix bug", author |-> a] : a \in AuthorObjects}
    \cup {[author |-> a] : a \in AuthorObjects}
    \cup {[message |-> "fix bug"], EmptyObject}
CommitRecords ==
    {[sha |-> h, commit |-> c] : h \in {"abc123", "def456"}, c \in CommitObjects}
    \cup {[commit |-> c] : c \in CommitObjects}
    \cup {[sha |-> "abc123"], EmptyObject}

\* contents of documents handed to the splitter
ChunkContents == {"", " ", "alpha", " alpha", "beta\n", "a b", "a\n\nb"}

\* One call of an ingestion function, on every input of the sets above.
InitIngest ==
    /\ StoreInit
    /\ ChatInit
    /\ files = << >>
    /\ file_i = 0
    /\ documents = << >>
    /\ \/ \E l \in Listings : call = Pending("load_all_documents", l)
       \/ \E c \in SeqsOf(CommitRecords, 0, MaxRecords) :
              call = Pending("load_github_commits_json", c)
       \/ \E d \in SeqsOf(ChunkContents, 0, MaxRecords) :
              call = Pending("chunk_documents", d)

NextIngest ==
    \/ LoadAllDocuments
    \/ LoadFile
    \/ LoadReturn
    \/ LoadGithubCommitsJson
    \/ ChunkDocuments

SpecIngest == InitIngest /\ [][NextIngest]_vars

-----------------------------------------------------------------------------
(* Claims                                                                  *)

\* the labels of a search outcome, in order
Labels(r) == [s \in 1..Len(r.results) |-> r.results[s].index]
\* records of metadata.pkl, vectors of faiss.index
FileRecords(f) == Len(pickle_load(f))
FileVectors(f) == f.ntotal

\* C1: after any sequence of add_embeddings calls with non-empty batches on a
\* fresh store, whatever the metadatas arguments were (None, empty, of another
\* length), len(self.metadata) equals the number of vectors in the index.
\* (SpecStore)
C1_MetadataCountIsVectorCount == Len(metadata) = ntotal(index)

\* C2: search(q, top_k) on an index of n vectors, 0 < n < top_k, returns
\* exactly n results, one per stored vector (every position once, no padding
\* entry), by ascending distance; query(text, top_k) is search on the embedded
\* text.  (Spec)
C2_FewerThanTopKReturnsAll ==
    ( /\ ret.op \in {"search", "query"}
      /\ ret.exc = ""
      /\ Len(metadata) = ntotal(index)
      /\ 0 < ntotal(index)
      /\ ntotal(index) < ret.top_k )
    => /\ Len(ret.results) = ntotal(index)
       /\ \A p \in 0..(ntotal(index) - 1) :
              Cardinality({s \in 1..Len(ret.results) : ret.results[s].index = p}) = 1
       /\ \A s \in 1..(Len(ret.results) - 1) :
              ret.results[s].distance <= ret.results[s + 1].distance

\* what search_and_summarize retrieves from the store as it is: nothing, or
\* only results whose metadata has no "text"
RetrievesNoText(q_text, top_k) ==
    LET found == query(index, metadata, embedding_model, q_text, top_k)
    IN  /\ found.exc = ""
        /\ \A s \in 1..Len(found.results) :
               \/ found.results[s].metadata = None
               \/ "text" \notin DOMAIN found.results[s].metadata

\* C3: search_and_summarize returns "No relevant documents found.", without
\* invoking the LLM and without raising, whenever the index holds no vectors
\* or every retrieved result's metadata lacks a text field.  (SpecStore)
C3_NoTextGivesSentinel ==
    ( /\ ret.op = "search_and_summarize"
      /\ index # NoIndex
      /\ Len(metadata) = ntotal(index)
      /\ \/ ntotal(index) = 0
         \/ \A t \in Texts : RetrievesNoText(t, ret.top_k) )
    => /\ ret.exc = ""
       /\ ret.response = NoResultsMessage
       /\ ~ret.llm_invoked

\* C4: save() then load() on a fresh store over the same persist_dir gives a
\* store with the vector count and metadata count of the saved store, and for
\* every query vector and top_k search on it returns the same labels, in the
\* same order, as search on the saved store.  (SpecAdd)
C4_SaveLoadRoundTrip ==
    ( /\ ret.op = "load"
      /\ ret.exc = ""
      /\ ret.fresh
      /\ presave.valid )
    => /\ ntotal(index) = ntotal(presave.index)
       /\ Len(metadata) = Len(presave.metadata)
       /\ \A q \in Vectors, k \in TopKs :
              LET here == search(index, metadata, q, k)
                  there == search(presave.index, presave.metadata, q, k)
              IN  here.exc = there.exc /\ Labels(here) = Labels(there)

\* C4 witness: a fresh store has loaded what a store of two different vectors,
\* nearest-first in the other order for some query, had saved.
C4_Witness ==
    /\ ret.op = "load"
    /\ ret.exc = ""
    /\ ret.fresh
    /\ presave.valid
    /\ ntotal(index) = 2
    /\ Len(metadata) = 2
    /\ \E q \in Vectors : Labels(search(index, metadata, q, 3)) = <<1, 0, PadLabel>>

\* C5: add_embeddings called with a metadatas list whose length differs from
\* the number of vectors raises, and leaves the index and the metadata as they
\* were.  (SpecStore)
C5_MismatchedListRaises ==
    [][ ( /\ ret'.op = "add_embeddings"
          /\ ret'.nmeta >= 0
          /\ ret'.nmeta # ret'.nvec )
        => /\ ret'.exc # ""
           /\ index' = index
           /\ metadata' = metadata ]_vars

\* C6: load() on a persist_dir whose faiss.index vector count differs from the
\* record count of metadata.pkl raises.  (Spec)
C6_LoadChecksCounts ==
    ( /\ ret.op = "load"
      /\ faiss_file.exists
      /\ meta_file.exists
      /\ FileVectors(faiss_file) # FileRecords(meta_file) )
    => ret.exc # ""

C8_PersistedPairConsistent ==
    (pc = "idle" /\ faiss_file.exists /\ meta_file.exists)
        => FileVectors(faiss_file) = FileRecords(meta_file)

\* C9: in the chat application at most one build or query is executing
\* against the store at any time: no query overlaps the build/load, and no two
\* queries overlap.  (SpecChat)
C9_AtMostOneInFlight == InFlight <= 1

\* C10: the model query() embeds the query with is the model that produced
\* every vector in the index, in every reachable state.  (Spec)
C10_QueryModelIsCorpusModel ==
    \A n \in 1..ntotal(index) : ProducedBy(index.xb[n]) = embedding_model

\* the documents of those files of fs whose loader does not raise, in order
RECURSIVE DocumentsOfLoadable(_)
DocumentsOfLoadable(fs) ==
    IF Len(fs) = 0 THEN << >>
    ELSE (IF Head(fs).raises THEN << >> ELSE Head(fs).docs)
         \o DocumentsOfLoadable(Tail(fs))

\* C11: load_all_documents never aborts on a per-file failure: whichever of
\* the supported files it found have a loader that raises, its list holds,
\* after every round of the loop, the documents of the files before that
\* loaded, in traversal order, and it returns that list for all the files.
\* (SpecIngest)
C11_PerFileFailureSkipped ==
    call.fn = "load_all_documents" =>
        /\ file_i > 0 =>
               documents = DocumentsOfLoadable(SubSeq(files, 1, file_i - 1))
        /\ call.done => call.result = DocumentsOfLoadable(files)

\* C11 witness: a call has returned documents although the loader of a file
\* before a loadable one, and the loader of a file after one, raised.
C11_Witness ==
    /\ call.fn = "load_all_documents"
    /\ call.done
    /\ Len(call.result) > 0
    /\ \E i, j, k \in 1..Len(files) :
           /\ i < j /\ j < k
           /\ files[i].raises /\ ~files[j].raises /\ files[k].raises

C13_ShortDocumentIsOneChunk ==
    (/\ call.fn = "chunk_documents"
     /\ call.done
     /\ \A i \in 1..Len(call.arg) : Len(call.arg[i]) <= chunk_size)
        => call.result = call.arg

\* C14: whenever processing a message fails (search_and_summarize raises), a
\* message is added to the chat area for it: no process_message thread ends
\* after a raise without an add_message call of its own.  (SpecChat)
C14_FailureIsShown ==
    \A w \in Workers :
        (worker[w].pc = "done" /\ worker[w].raised) => worker[w].answered

\* C15: for every store grown by add_embeddings calls, with or without
\* metadata, and every query, each result of search that names a stored vector
\* carries the record that vector was added with, or None when it was added
\* with none: never the record of another vector.  (SpecStore)
C15_ResultCarriesOwnMetadata ==
    (ret.op = "search" /\ ret.exc = "" /\ Len(paired) = ntotal(index)) =>
        \A s \in 1..Len(ret.results) :
            LET r == ret.results[s]
            IN  r.index # PadLabel => r.metadata = paired[r.index + 1]

\* every started process_message thread has finished
AllFinished == \A w \in Workers : worker[w].pc \in {"unborn", "done"}
\* no "Assistant is typing..." block is in the chat area
NoIndicator == \A i \in 1..Len(chat_area) : chat_area[i] # "typing"
\* a step of hide_typing_indicator in thread w removes no block but the
\* indicator that w inserted
HidesOnlyOwn(w) ==
    (worker[w].pc = "hide" /\ worker'[w].pc # "hide") =>
        \A i \in 1..Len(chat_area) :
            (i > Len(chat_area') \/ chat_area'[i] # chat_area[i])
                => (i = worker[w].shown /\ chat_area[i] = "typing")

\* C16: for every interleaving of the process_message threads, once all of
\* them have finished no typing indicator remains in the chat area, and
\* hide_typing_indicator deletes nothing but the indicator its own thread
\* showed.  (SpecTyping)
C16_IndicatorsAreOwnAndCleared ==
    [][/\ \A w \in Workers : HidesOnlyOwn(w)
       /\ AllFinished' => NoIndicator']_vars

=============================================================================
